---------------------------- MODULE Spec2Model ----------------------------
(***************************************************************************)
(* Model of move_and_rename_files_from_xOpenSPIM.py:                       *)
(*   - the filename codec of class ImageFile (canonical decode, ingest     *)
(*     decode, plane encoding), on character strings;                      *)
(*   - the folder monitor: the watchdog observer thread running            *)
(*     FileEventHandler.on_created, the periodic scan_directory armed by   *)
(*     threading.Timer, and the main thread of monitor_folder.             *)
(* Strings are TLA+ strings; Len, \o, SubSeq, Head and Tail act on them.   *)
(***************************************************************************)
EXTENDS Integers, Sequences, FiniteSets, TLC

(***************************************************************************)
(* Characters and Python string primitives                                 *)
(***************************************************************************)
Digits == {"0", "1", "2", "3", "4", "5", "6", "7", "8", "9"}

Lowers == {"a", "b", "c", "d", "e", "f", "g", "h", "i", "j", "k", "l", "m",
           "n", "o", "p", "q", "r", "s", "t", "u", "v", "w", "x", "y", "z"}

Uppers == {"A", "B", "C", "D", "E", "F", "G", "H", "I", "J", "K", "L", "M",
           "N", "O", "P", "Q", "R", "S", "T", "U", "V", "W", "X", "Y", "Z"}

\* the regular-expression class \w (ASCII part)
WordChars == Digits \cup Lowers \cup Uppers \cup {"_"}

\* the argument of str.strip("-_")
StripChars == {"-", "_"}

CharAt(s, i) == SubSeq(s, i, i)

\* s[i:] starts with lit
StartsWithAt(s, i, lit) ==
    /\ i + Len(lit) - 1 <= Len(s)
    /\ SubSeq(s, i, i + Len(lit) - 1) = lit

RECURSIVE LStrip(_)
LStrip(s) ==
    IF Len(s) > 0 /\ Head(s) \in StripChars THEN LStrip(Tail(s)) ELSE s

RECURSIVE RStrip(_)
RStrip(s) ==
    IF Len(s) > 0 /\ CharAt(s, Len(s)) \in StripChars
    THEN RStrip(SubSeq(s, 1, Len(s) - 1))
    ELSE s

\* str.strip("-_")
Strip(s) == RStrip(LStrip(s))

\* index of the first occurrence of character c in s at or after i, 0 if none
RECURSIVE FindChar(_, _, _)
FindChar(s, c, i) ==
    IF i > Len(s) THEN 0
    ELSE IF CharAt(s, i) = c THEN i
    ELSE FindChar(s, c, i + 1)

\* str.split("_", 1)
SplitOnce(s) ==
    LET k == FindChar(s, "_", 1)
    IN  IF k = 0 THEN <<s>>
        ELSE <<SubSeq(s, 1, k - 1), SubSeq(s, k + 1, Len(s))>>

\* end of the maximal run of characters of class cls starting at i
\* (i - 1 when the run is empty): a greedy cls+ of the regular expression
RECURSIVE RunEnd(_, _, _)
RunEnd(s, i, cls) ==
    IF i <= Len(s) /\ CharAt(s, i) \in cls THEN RunEnd(s, i + 1, cls)
    ELSE i - 1

DigitVal(c) ==
    CASE c = "0" -> 0 [] c = "1" -> 1 [] c = "2" -> 2 [] c = "3" -> 3
      [] c = "4" -> 4 [] c = "5" -> 5 [] c = "6" -> 6 [] c = "7" -> 7
      [] c = "8" -> 8 [] c = "9" -> 9

DigitChar(d) ==
    CASE d = 0 -> "0" [] d = 1 -> "1" [] d = 2 -> "2" [] d = 3 -> "3"
      [] d = 4 -> "4" [] d = 5 -> "5" [] d = 6 -> "6" [] d = 7 -> "7"
      [] d = 8 -> "8" [] d = 9 -> "9"

\* the digit groups of a Python integer literal: digits, with single
\* underscores allowed between digits
RECURSIVE IsDigitGroups(_, _)
IsDigitGroups(s, i) ==
    IF i > Len(s) THEN FALSE
    ELSE IF CharAt(s, i) \notin Digits THEN FALSE
    ELSE IF i = Len(s) THEN TRUE
    ELSE IF CharAt(s, i + 1) = "_" THEN IsDigitGroups(s, i + 2)
    ELSE IsDigitGroups(s, i + 1)

\* whether int(s) returns (otherwise it raises ValueError); whitespace
\* around the literal is outside the alphabet of the model
IntParses(s) ==
    IF Len(s) > 0 /\ Head(s) \in {"+", "-"} THEN IsDigitGroups(Tail(s), 1)
    ELSE IsDigitGroups(s, 1)

RECURSIVE DigitsValue(_, _, _)
DigitsValue(s, i, acc) ==
    IF i > Len(s) THEN acc
    ELSE IF CharAt(s, i) = "_" THEN DigitsValue(s, i + 1, acc)
    ELSE DigitsValue(s, i + 1, 10 * acc + DigitVal(CharAt(s, i)))

\* int(s), for s with IntParses(s)
IntValue(s) ==
    IF Head(s) = "-" THEN 0 - DigitsValue(Tail(s), 1, 0)
    ELSE IF Head(s) = "+" THEN DigitsValue(Tail(s), 1, 0)
    ELSE DigitsValue(s, 1, 0)

\* str(n) for n >= 0
RECURSIVE NatStr(_)
NatStr(n) ==
    IF n < 10 THEN DigitChar(n) ELSE NatStr(n \div 10) \o DigitChar(n % 10)

RECURSIVE ZeroPad(_, _)
ZeroPad(s, w) == IF Len(s) >= w THEN s ELSE ZeroPad("0" \o s, w)

\* format(n, "0<w>"): the sign counts in the width
FormatInt(n, w) ==
    IF n < 0 THEN "-" \o ZeroPad(NatStr(0 - n), w - 1)
    ELSE ZeroPad(NatStr(n), w)

(***************************************************************************)
(* class ImageFile: the filename codec                                     *)
(***************************************************************************)
\* the alternatives of the regular expression split_by, in order
split_by ==
    <<"timelapseID-", "SPC-", "TP-", "ILL-", "CAM-", "CH-", "PL-", "outOf-", ".">>

\* length of the first alternative of split_by that matches at position i,
\* 0 when none does
DelimLenAt(s, i) ==
    LET hits == {k \in 1..Len(split_by) : StartsWithAt(s, i, split_by[k])}
    IN  IF hits = {} THEN 0
        ELSE Len(split_by[CHOOSE k \in hits : \A j \in hits : k <= j])

\* re.split(split_by, s): the pieces between the leftmost non-overlapping
\* matches, scanning from position i with the current piece starting at from
RECURSIVE SplitFrom(_, _, _)
SplitFrom(s, i, from) ==
    IF i > Len(s) THEN <<SubSeq(s, from, Len(s))>>
    ELSE LET n == DelimLenAt(s, i)
         IN  IF n = 0 THEN SplitFrom(s, i + 1, from)
             ELSE <<SubSeq(s, from, i - 1)>> \o SplitFrom(s, i + n, i + n)

re_split(s) == SplitFrom(s, 1, 1)

\* the exception raised by both decoders; a failed decode yields no record
NotImagePlaneFile(msg) == [ok |-> FALSE, exc |-> "NotImagePlaneFile", msg |-> msg]

\* segment 8 (total_num_planes, optionally followed by _additional_info)
name_and_info(name_part) == SplitOnce(Strip(name_part))

\* the int() conversions inside the try block of __init__ all return
FieldsParse(name_parts) ==
    /\ \A i \in 3..8 : IntParses(Strip(name_parts[i]))
    /\ IntParses(Strip(name_and_info(name_parts[9])[1]))

\* str.lower(), on ASCII letters
LowerChar(c) ==
    LET k == FindChar("ABCDEFGHIJKLMNOPQRSTUVWXYZ", c, 1)
    IN  IF k = 0 THEN c ELSE CharAt("abcdefghijklmnopqrstuvwxyz", k)

RECURSIVE Lower(_)
Lower(s) == IF Len(s) = 0 THEN "" ELSE LowerChar(Head(s)) \o Lower(Tail(s))

\* a decoder that keeps the result of lower()
StoredExtensionLowered(ext) == Lower(ext)

\* line 81: the extension is kept as read, the result of
\* self.extension.lower() is dropped
StoredExtension(ext) == ext

\* a decoder that ignores segments after the tenth
AtLeastTenParts(name_parts) == Len(name_parts) >= 10

\* line 41
TenParts(name_parts) == Len(name_parts) = 10

\* ImageFile.__init__(file_path), on the basename of file_path
ImageFile(file_name) ==
    LET name_parts == re_split(file_name)
    IN  IF TenParts(name_parts)
        THEN IF FieldsParse(name_parts)
             THEN LET ni == name_and_info(name_parts[9])
                  IN  [ok |-> TRUE,
                       dataset_name |-> Strip(name_parts[1]),
                       timelapse_id |-> Strip(name_parts[2]),
                       specimen |-> IntValue(Strip(name_parts[3])),
                       time_point |-> IntValue(Strip(name_parts[4])),
                       illumination |-> IntValue(Strip(name_parts[5])),
                       camera |-> IntValue(Strip(name_parts[6])),
                       channel |-> IntValue(Strip(name_parts[7])),
                       plane |-> IntValue(Strip(name_parts[8])),
                       total_num_planes |-> IntValue(Strip(ni[1])),
                       additional_info |-> IF Len(ni) = 1 THEN "" ELSE ni[2],
                       extension |-> StoredExtension(name_parts[10])]
             ELSE NotImagePlaneFile("not a valid filename for a single plane image file")
        ELSE NotImagePlaneFile("expected 10 parts after splitting")

\* re.match of the pattern
\*   _channel(\d+)_position(\d+)_time(\d+)_view(\d+)_z(\d+)\.(\w+)
\* against s, one literal and one greedy group at a time from position i;
\* the match is anchored at the start of s only.  lits[k] precedes group k.
IngestLiterals == <<"_channel", "_position", "_time", "_view", "_z", ".">>

RECURSIVE MatchGroups(_, _, _, _)
MatchGroups(s, i, k, groups) ==
    IF k > Len(IngestLiterals) THEN [matched |-> TRUE, group |-> groups]
    ELSE LET lit == IngestLiterals[k]
             cls == IF k = Len(IngestLiterals) THEN WordChars ELSE Digits
             b == i + Len(lit)
             e == RunEnd(s, b, cls)
         IN  IF StartsWithAt(s, i, lit) /\ e >= b
             THEN MatchGroups(s, e + 1, k + 1, Append(groups, SubSeq(s, b, e)))
             ELSE [matched |-> FALSE, group |-> <<>>]

re_match(s) == MatchGroups(s, 1, 1, <<>>)

\* the placeholder assigned to timelapse_id by the ingest decoder
IngestTimelapseId == "20240808-111112"

\* a decoder that maps the view group to camera
CameraFromView(match) == IntValue(match.group[4])

\* line 94: camera is 0, group 4 (view) is not used
IngestCamera(match) == 0

\* ImageFile.get_ImageFile_from_xOpenSPIM_filename(file_name)
get_ImageFile_from_xOpenSPIM_filename(file_name) ==
    LET match == re_match(file_name)
    IN  IF match.matched
        THEN [ok |-> TRUE,
              dataset_name |-> "",
              timelapse_id |-> IngestTimelapseId,
              specimen |-> IntValue(match.group[2]),
              time_point |-> IntValue(match.group[3]),
              illumination |-> 0,
              camera |-> IngestCamera(match),
              channel |-> IntValue(match.group[1]),
              plane |-> IntValue(match.group[5]),
              total_num_planes |-> 1,
              additional_info |-> "",
              extension |-> match.group[6]]
        ELSE NotImagePlaneFile("xOpenSPIM file name is improperly formatted")

\* ImageFile.get_name(self)
get_name(self) ==
    LET additional_info == IF self.additional_info # ""
                           THEN "_" \o self.additional_info ELSE ""
        dataset_name == IF self.dataset_name # ""
                        THEN self.dataset_name \o "_" ELSE ""
    IN  dataset_name \o "timelapseID-" \o self.timelapse_id
          \o "_SPC-" \o FormatInt(self.specimen, 4)
          \o "_TP-" \o FormatInt(self.time_point, 4)
          \o "_ILL-" \o FormatInt(self.illumination, 1)
          \o "_CAM-" \o FormatInt(self.camera, 1)
          \o "_CH-" \o FormatInt(self.channel, 2)
          \o "_PL-" \o FormatInt(self.plane, 4)
          \o "-outOf-" \o FormatInt(self.total_num_planes, 4)
          \o additional_info \o "." \o self.extension

\* a stack name that still carries the plane number
StackNameWithPlane(self) == get_name(self)

\* ImageFile.get_stack_name(self)
get_stack_name(self) ==
    LET additional_info == IF self.additional_info # ""
                           THEN "_" \o self.additional_info ELSE ""
        dataset_name == IF self.dataset_name # ""
                        THEN self.dataset_name \o "_" ELSE ""
    IN  dataset_name \o "timelapseID-" \o self.timelapse_id
          \o "_SPC-" \o FormatInt(self.specimen, 4)
          \o "_TP-" \o FormatInt(self.time_point, 4)
          \o "_ILL-" \o FormatInt(self.illumination, 1)
          \o "_CAM-" \o FormatInt(self.camera, 1)
          \o "_CH-" \o FormatInt(self.channel, 2)
          \o "_PL-(ZS)"
          \o "-outOf-" \o FormatInt(self.total_num_planes, 4)
          \o additional_info \o "." \o self.extension

(***************************************************************************)
(* os.path and FileEventHandler.process: the destination of a source file  *)
(***************************************************************************)
RECURSIVE LastSlash(_, _)
LastSlash(p, i) ==
    IF i = 0 THEN 0 ELSE IF CharAt(p, i) = "/" THEN i ELSE LastSlash(p, i - 1)

\* os.path.basename
Basename(p) == SubSeq(p, LastSlash(p, Len(p)) + 1, Len(p))

\* os.path.join of two components
PathJoin(a, b) ==
    IF Len(b) > 0 /\ Head(b) = "/" THEN b
    ELSE IF a = "" \/ CharAt(a, Len(a)) = "/" THEN a \o b
    ELSE a \o "/" \o b

\* the folders given on the command line
folder_to_watch == "in"

output_folder == "out"

\* lines 158-162 of process: the decode of the basename and, when it
\* succeeds, new_path; a failed decode is the exception caught at line 165
new_path(file_path) ==
    LET image_file == get_ImageFile_from_xOpenSPIM_filename(Basename(file_path))
    IN  IF image_file.ok
        THEN [ok |-> TRUE, path |-> PathJoin(output_folder, get_name(image_file))]
        ELSE [ok |-> FALSE, path |-> ""]

(***************************************************************************)
(* The monitored folder and the bounds of the model                        *)
(***************************************************************************)
\* how many entries the environment may create during a run, a name
\* created again after its removal counting again
MaxCreates == 2

\* how many entries the environment may remove during a run
MaxRemoves == 1

\* length of a file in blocks of the copy loop
NChunks == 2

FileA == "_channel01_position0002_time0003_view0_z0004.tif"

FileR == "randomfile.tif"

DirD == "stacks"

\* the regular files and the directories that may appear in folder_to_watch
FilePaths == {PathJoin(folder_to_watch, n) : n \in {FileA, FileR}}

DirPaths == {PathJoin(folder_to_watch, DirD)}

Paths == FilePaths \cup DirPaths

\* the decode and destination of every path, computed once
Dest == [p \in FilePaths |-> new_path(p)]

DestPaths == {Dest[p].path : p \in {q \in FilePaths : Dest[q].ok}}

\* block k of the v-th file written at path p; a block of a destination
\* that no copy has written yet reads as Hole
Chunk(p, v, k) == <<p, v, k>>

Hole == <<"", 0, 0>>

Content(p, v) == [k \in 1..NChunks |-> Chunk(p, v, k)]

NoFile == [exists |-> FALSE, data |-> <<>>]

\* the threads that run FileEventHandler.process
Threads == {"observer", "scan"}

VARIABLES
    fs,               \* fs[p]: 0 when p is absent, else its modification time
    created,          \* created[p]: how many files were created at p
    removed,          \* how many entries were removed
    dst,              \* dst[d]: destination file d, its blocks in data
    queue,            \* events the observer has not dispatched yet (those
                      \* left when it stops are never dispatched)
    observing,        \* observer.start() was called and observer.stop() not
    ev_pc,            \* the observer thread: idle, settle (in time.sleep),
                      \* wake (the sleep is over), process, stopped
    pr,               \* pr[t]: the call of process running on thread t
    sc_pc,            \* periodic_scan: off, list, sort, iter, process,
                      \* armed (Timer waiting), dead (ended by an exception)
    listed,           \* the paths kept by the filter of lines 171-174
    new_files,        \* new_files after the sort of line 177
    sc_i,             \* position of the loop of line 179 in new_files
    processed_files,  \* the set processed_files of monitor_folder
    main_pc,          \* the main thread: start, first_scan, loop, join,
                      \* returned, crashed
    interrupted,      \* a KeyboardInterrupt was delivered
    copied,           \* copied[p]: how many "Copied:" lines name p
    errors,           \* the paths named by an "Error while copying:" line
    ev_seen,          \* the paths on_created passed to process
    scanned,          \* scanned[p]: how often a scan passed p to process
    scans,            \* how many calls of periodic_scan are in progress
    timers,           \* how many Timers are armed
    fresh,            \* the paths that appeared less than the settle delay
                      \* ago: their writer may still be writing
    file_name,        \* codec: the filename given to a decoder
    gen,              \* codec: the pieces file_name was assembled from
    decoder,          \* codec: which decoder ran (none, canonical, ingest)
    image_file,       \* codec: what the decoder returned
    name_out,         \* codec: what get_name returned, "" before it ran
    stack_name_out,   \* codec: what get_stack_name returned, "" before
    new_paths         \* new_paths[p]: new_path as lines 158-162 compute it
                      \* for file p, a function of the path alone that is
                      \* worked out once

hvars == <<scanned, scans, timers, fresh>>

mvars == <<fs, created, removed, dst, queue, observing, ev_pc, pr, sc_pc,
           listed, new_files, sc_i, processed_files, main_pc, interrupted,
           copied, errors, ev_seen, hvars>>

cvars == <<file_name, gen, decoder, image_file, name_out, stack_name_out,
           new_paths>>

vars == <<mvars, cvars>>

\* pr[t].ver is the file the copy opened: the ver-th one created at path
Idle == [pc |-> "idle", path |-> "", ver |-> 0, off |-> 0]

\* the process is running: the main thread has not died of an exception
\* (the observer thread is a daemon thread and ends with the main thread)
Alive == main_pc # "crashed"

MonitorInit ==
    /\ fs = [p \in Paths |-> 0]
    /\ created = [p \in Paths |-> 0]
    /\ removed = 0
    /\ dst = [d \in DestPaths |-> NoFile]
    /\ queue = <<>>
    /\ observing = FALSE
    /\ ev_pc = "idle"
    /\ pr = [t \in Threads |-> Idle]
    /\ sc_pc = "off"
    /\ listed = {}
    /\ new_files = <<>>
    /\ sc_i = 0
    /\ processed_files = {}
    /\ main_pc = "start"
    /\ interrupted = FALSE
    /\ copied = [p \in FilePaths |-> 0]
    /\ errors = {}
    /\ ev_seen = {}
    /\ scanned = [p \in FilePaths |-> 0]
    /\ scans = 0
    /\ timers = 0
    /\ fresh = {}
    /\ new_paths = Dest

(***************************************************************************)
(* The environment: the acquisition tool writing into folder_to_watch,     *)
(* anything removing entries from it, and the user's Ctrl-C                *)
(***************************************************************************)
RECURSIVE SumOver(_, _)
SumOver(f, S) ==
    IF S = {} THEN 0
    ELSE LET x == CHOOSE y \in S : TRUE IN f[x] + SumOver(f, S \ {x})

NCreated == SumOver(created, Paths)

\* the modification times a new entry may carry: that of the newest entry
\* present or a later one (times count from 1)
Newest == LET times == {fs[p] : p \in Paths}
          IN  CHOOSE m \in times : \A n \in times : n <= m

NewMTimes == IF Newest = 0 THEN {1} ELSE {Newest, Newest + 1}

CreatedEvent(p) == [src_path |-> p, is_directory |-> p \in DirPaths]

\* an entry appears; the observer is told when it is watching
Create(p) ==
    /\ Alive
    /\ fs[p] = 0
    /\ NCreated < MaxCreates
    /\ created' = [created EXCEPT ![p] = @ + 1]
    /\ \E m \in NewMTimes : fs' = [fs EXCEPT ![p] = m]
    /\ queue' = IF observing THEN Append(queue, CreatedEvent(p)) ELSE queue
    /\ fresh' = fresh \cup {p}
    /\ UNCHANGED <<removed, dst, observing, ev_pc, pr, sc_pc, listed, new_files,
                   sc_i, processed_files, main_pc, interrupted, copied, errors,
                   ev_seen, scanned, scans, timers, cvars>>

\* a file is removed (or moved away) by the user or another tool
Remove(p) ==
    /\ Alive
    /\ p \in FilePaths
    /\ fs[p] # 0
    /\ removed < MaxRemoves
    /\ removed' = removed + 1
    /\ fs' = [fs EXCEPT ![p] = 0]
    /\ fresh' = fresh \ {p}
    /\ UNCHANGED <<created, dst, queue, observing, ev_pc, pr, sc_pc, listed,
                   new_files, sc_i, processed_files, main_pc, interrupted,
                   copied, errors, ev_seen, scanned, scans, timers, cvars>>

\* the settle delay passes (one second, line 153): what was there before is
\* no longer fresh, and a time.sleep(1) that was running returns
settle_delay_passes ==
    /\ Alive
    /\ fresh # {} \/ ev_pc = "settle"
    /\ fresh' = {}
    /\ ev_pc' = IF ev_pc = "settle" THEN "wake" ELSE ev_pc
    /\ UNCHANGED <<fs, created, removed, dst, queue, observing, pr, sc_pc,
                   listed, new_files, sc_i, processed_files, main_pc,
                   interrupted, copied, errors, ev_seen, scanned, scans,
                   timers, cvars>>

\* an exception leaves the main thread outside the try of lines 198-202:
\* the interpreter exits and takes the daemon observer thread with it
MainThreadDies ==
    /\ main_pc' = "crashed"
    /\ sc_pc' = "dead"
    /\ ev_pc' = "stopped"
    /\ observing' = FALSE
    /\ queue' = <<>>
    /\ scans' = 0
    /\ timers' = 0

\* KeyboardInterrupt is raised in the main thread: inside the loop of lines
\* 199-200 it is caught at line 201 and line 202 calls observer.stop();
\* during the first periodic_scan() of line 196 nothing catches it (process
\* catches Exception only)
Interrupt ==
    /\ ~interrupted
    /\ interrupted' = TRUE
    /\ \/ /\ main_pc = "loop"
          /\ main_pc' = "join"
          /\ observing' = FALSE
          /\ queue' = <<>>
          /\ UNCHANGED <<sc_pc, ev_pc, scans, timers>>
       \/ /\ main_pc = "first_scan"
          /\ MainThreadDies
    /\ UNCHANGED <<fs, created, removed, dst, pr, listed, new_files, sc_i,
                   processed_files, copied, errors, ev_seen, scanned, fresh,
                   cvars>>

(***************************************************************************)
(* monitor_folder: the main thread                                         *)
(***************************************************************************)
\* a periodic_scan that starts its Timer before it scans
ArmsOnEntry == TRUE

\* lines 193-194: scan_directory is called first, the Timer started after
ArmsBeforeScan == FALSE

\* the Timers armed once a call of periodic_scan has been entered
TimersOnEntry(n) == IF ArmsBeforeScan THEN n + 1 ELSE n

\* the Timers armed once scan_directory has returned to periodic_scan
TimersOnReturn(n) == IF ArmsBeforeScan THEN n ELSE n + 1

\* lines 186-190 and the call of line 196 entering periodic_scan
monitor_folder_start ==
    /\ main_pc = "start"
    /\ main_pc' = "first_scan"
    /\ observing' = TRUE
    /\ sc_pc' = "list"
    /\ scans' = scans + 1
    /\ timers' = TimersOnEntry(timers)
    /\ UNCHANGED <<fs, created, removed, dst, queue, ev_pc, pr, listed,
                   new_files, sc_i, processed_files, interrupted, copied,
                   errors, ev_seen, scanned, fresh,
                   cvars>>

\* line 203: observer.join() returns once the observer thread has ended
monitor_folder_join ==
    /\ main_pc = "join"
    /\ ev_pc = "stopped"
    /\ main_pc' = "returned"
    /\ UNCHANGED <<fs, created, removed, dst, queue, observing, ev_pc, pr,
                   sc_pc, listed, new_files, sc_i, processed_files,
                   interrupted, copied, errors, ev_seen, hvars, cvars>>

(***************************************************************************)
(* FileEventHandler.process, on thread t                                   *)
(***************************************************************************)
\* lines 158-162: the call of process(file_path) up to shutil.copy; a
\* NotImagePlaneFile is caught at line 165 and printed
ProcessCall(file_path) ==
    IF new_paths[file_path].ok
    THEN [pc |-> "open", path |-> file_path, ver |-> 0, off |-> 0]
    ELSE [pc |-> "return", path |-> file_path, ver |-> 0, off |-> 0]

\* a handler that swallows the exception without a word
ReportsNothing(file_path) == {}

\* line 166: the "Error while copying:" line of a failed decode
ProcessReports(file_path) ==
    IF new_paths[file_path].ok THEN {} ELSE {file_path}

\* a write that lands at the end of the file, as under O_APPEND
WriteAtEnd(data, k, c) == Append(data, c)

\* a write of block c at position k of a file holding data
WriteAt(data, k, c) ==
    [i \in 1..(IF k > Len(data) THEN k ELSE Len(data)) |->
        IF i = k THEN c ELSE IF i <= Len(data) THEN data[i] ELSE Hole]

\* shutil.copy, line 163: open(src, "rb") and open(dst, "wb"); the second
\* creates or truncates the destination; the first raises FileNotFoundError
\* for a source that is gone, which line 165 catches
copy_open(t) ==
    /\ Alive
    /\ pr[t].pc = "open"
    /\ LET p == pr[t].path
           d == new_paths[p].path
       IN  IF fs[p] # 0
           THEN /\ dst' = [dst EXCEPT ![d] = [exists |-> TRUE, data |-> <<>>]]
                /\ pr' = [pr EXCEPT ![t].pc = "write", ![t].ver = created[p]]
                /\ UNCHANGED errors
           ELSE /\ errors' = errors \cup {p}
                /\ pr' = [pr EXCEPT ![t].pc = "return"]
                /\ UNCHANGED dst
    /\ UNCHANGED <<fs, created, removed, queue, observing, ev_pc, sc_pc,
                   listed, new_files, sc_i, processed_files, main_pc,
                   interrupted, copied, ev_seen, hvars, cvars>>

\* shutil.copy, line 163: one block of the copy loop, written at the
\* position of this copy's own file descriptor
copy_write(t) ==
    /\ Alive
    /\ pr[t].pc = "write"
    /\ LET p == pr[t].path
           d == new_paths[p].path
           k == pr[t].off + 1
       IN  /\ dst' = [dst EXCEPT ![d].data =
                                  WriteAt(@, k, Content(p, pr[t].ver)[k])]
           /\ pr' = [pr EXCEPT ![t].off = k,
                               ![t].pc = IF k = NChunks THEN "mode" ELSE "write"]
    /\ UNCHANGED <<fs, created, removed, queue, observing, ev_pc, sc_pc,
                   listed, new_files, sc_i, processed_files, main_pc,
                   interrupted, copied, errors, ev_seen, hvars, cvars>>

\* shutil.copy, line 163: copymode stats the source again, then line 164
\* prints "Copied:"; a source removed meanwhile raises, caught at line 165
copy_mode(t) ==
    /\ Alive
    /\ pr[t].pc = "mode"
    /\ LET p == pr[t].path
       IN  IF fs[p] # 0
           THEN /\ copied' = [copied EXCEPT ![p] = @ + 1]
                /\ UNCHANGED errors
           ELSE /\ errors' = errors \cup {p}
                /\ UNCHANGED copied
    /\ pr' = [pr EXCEPT ![t].pc = "return"]
    /\ UNCHANGED <<fs, created, removed, dst, queue, observing, ev_pc, sc_pc,
                   listed, new_files, sc_i, processed_files, main_pc,
                   interrupted, ev_seen, hvars, cvars>>

(***************************************************************************)
(* FileEventHandler.on_created, on the observer thread                     *)
(***************************************************************************)
\* a handler that takes every event for a file
NeverDirectory(event) == FALSE

\* line 151
IsDirectory(event) == event.is_directory

\* lines 150-153: the observer hands the next event to on_created, which
\* returns at once for a directory and otherwise starts time.sleep(1)
on_created ==
    /\ Alive
    /\ observing
    /\ ev_pc = "idle"
    /\ queue # <<>>
    /\ queue' = Tail(queue)
    /\ IF IsDirectory(Head(queue))
       THEN UNCHANGED <<ev_pc, pr>>
       ELSE /\ ev_pc' = "settle"
            /\ pr' = [pr EXCEPT !["observer"] =
                        [pc |-> "sleep", path |-> Head(queue).src_path,
                         ver |-> 0, off |-> 0]]
    /\ UNCHANGED <<fs, created, removed, dst, observing, sc_pc, listed,
                   new_files, sc_i, processed_files, main_pc, interrupted,
                   copied, errors, ev_seen, hvars, cvars>>

\* line 154: the sleep is over, self.process(event.src_path) is called
on_created_process ==
    /\ Alive
    /\ ev_pc = "wake"
    /\ ev_pc' = "process"
    /\ LET p == pr["observer"].path
       IN  /\ pr' = [pr EXCEPT !["observer"] = ProcessCall(p)]
           /\ errors' = errors \cup ProcessReports(p)
           /\ ev_seen' = ev_seen \cup {p}
    /\ UNCHANGED <<fs, created, removed, dst, queue, observing, sc_pc, listed,
                   new_files, sc_i, processed_files, main_pc, interrupted,
                   copied, hvars, cvars>>

\* a handler that records the path it has processed
EventAdds(processed, f) == processed \cup {f}

\* lines 146-166: FileEventHandler holds no reference to processed_files,
\* which is as before when on_created returns
EventRecorded(processed, f) == processed

\* process and on_created return; the observer thread waits for an event
on_created_return ==
    /\ Alive
    /\ ev_pc = "process"
    /\ pr["observer"].pc = "return"
    /\ ev_pc' = "idle"
    /\ pr' = [pr EXCEPT !["observer"] = Idle]
    /\ processed_files' = EventRecorded(processed_files, pr["observer"].path)
    /\ UNCHANGED <<fs, created, removed, dst, queue, observing, sc_pc, listed,
                   new_files, sc_i, main_pc, interrupted,
                   copied, errors, ev_seen, hvars, cvars>>

\* after observer.stop() the observer thread leaves its loop once the
\* handler it was running has returned
observer_exit ==
    /\ main_pc = "join"
    /\ ev_pc = "idle"
    /\ ev_pc' = "stopped"
    /\ UNCHANGED <<fs, created, removed, dst, queue, observing, pr, sc_pc,
                   listed, new_files, sc_i, processed_files, main_pc,
                   interrupted, copied, errors, ev_seen, hvars, cvars>>

(***************************************************************************)
(* scan_directory and periodic_scan                                        *)
(***************************************************************************)
\* the thread periodic_scan runs on: the main thread for the call of line
\* 196, a Timer thread afterwards
OnMainThread == main_pc = "first_scan"

\* a listing that does not look at processed_files
AllFiles(entries, processed) == {p \in entries : p \in FilePaths}

\* lines 171-174: the entries that are regular files and not yet processed
Unprocessed(entries, processed) ==
    {p \in entries : p \in FilePaths /\ p \notin processed}

Listing == Unprocessed({p \in Paths : fs[p] # 0}, processed_files)

\* the first scan, entered from line 196
scan_list ==
    /\ Alive
    /\ sc_pc = "list"
    /\ sc_pc' = "sort"
    /\ listed' = Listing
    /\ UNCHANGED <<fs, created, removed, dst, queue, observing, ev_pc, pr,
                   new_files, sc_i, processed_files, main_pc, interrupted,
                   copied, errors, ev_seen, hvars, cvars>>

\* a later scan: the Timer thread wakes after its interval and calls
\* periodic_scan, which lists the folder; the thread is not a daemon
\* thread and nothing cancels the Timer. sc_pc, listed, new_files and sc_i
\* follow one call of periodic_scan; a call entered while that one is still
\* in progress is counted in scans only
timer_fire ==
    /\ Alive
    /\ timers > 0
    /\ timers' = TimersOnEntry(timers - 1)
    /\ scans' = scans + 1
    /\ IF sc_pc = "armed"
       THEN /\ sc_pc' = "sort"
            /\ listed' = Listing
       ELSE UNCHANGED <<sc_pc, listed>>
    /\ UNCHANGED <<fs, created, removed, dst, queue, observing, ev_pc, pr,
                   new_files, sc_i, processed_files, main_pc, interrupted,
                   copied, errors, ev_seen, scanned, fresh,
                   cvars>>

\* a scan that does not sort: any order of S
AnyOrder(S) ==
    {q \in [1..Cardinality(S) -> S] :
        \A i, j \in 1..Cardinality(S) : i # j => q[i] # q[j]}

\* the orders list.sort may leave S in: by modification time, oldest first,
\* entries of equal time in the order os.listdir gave them (any order)
SortedByMTime(S) ==
    {q \in [1..Cardinality(S) -> S] :
        /\ \A i, j \in 1..Cardinality(S) : i # j => q[i] # q[j]
        /\ \A i, j \in 1..Cardinality(S) : i < j => fs[q[i]] <= fs[q[j]]}

\* line 177: os.path.getmtime raises FileNotFoundError for a listed file
\* that is gone; nothing in scan_directory or periodic_scan catches it, so
\* it ends the thread periodic_scan runs on before Timer(...).start()
scan_sort ==
    /\ Alive
    /\ sc_pc = "sort"
    /\ IF \E p \in listed : fs[p] = 0
       THEN /\ IF OnMainThread
               THEN MainThreadDies
               ELSE /\ sc_pc' = "dead"
                    /\ scans' = scans - 1
                    /\ UNCHANGED <<main_pc, ev_pc, observing, queue, timers>>
            /\ UNCHANGED <<new_files, sc_i, listed>>
       ELSE /\ \E q \in SortedByMTime(listed) : new_files' = q
            /\ listed' = {}
            /\ sc_i' = 1
            /\ sc_pc' = "iter"
            /\ UNCHANGED <<main_pc, ev_pc, observing, queue, scans, timers>>
    /\ UNCHANGED <<fs, created, removed, dst, pr, processed_files,
                   interrupted, copied, errors, ev_seen, scanned, fresh,
                   cvars>>

\* lines 179-181: the loop calls event_handler.process(f)
scan_process ==
    /\ Alive
    /\ sc_pc = "iter"
    /\ sc_i <= Len(new_files)
    /\ sc_pc' = "process"
    /\ pr' = [pr EXCEPT !["scan"] = ProcessCall(new_files[sc_i])]
    /\ errors' = errors \cup ProcessReports(new_files[sc_i])
    /\ scanned' = [scanned EXCEPT ![new_files[sc_i]] = @ + 1]
    /\ UNCHANGED <<fs, created, removed, dst, queue, observing, ev_pc, listed,
                   new_files, sc_i, processed_files, main_pc, interrupted,
                   copied, ev_seen, scans, timers,
                   fresh, cvars>>

\* a scan that keeps only the last path
Replaced(processed, f) == {f}

\* a scan that records nothing
NotAdded(processed, f) == processed

\* line 182: processed_files.add(f)
Added(processed, f) == processed \cup {f}

scan_add ==
    /\ Alive
    /\ sc_pc = "process"
    /\ pr["scan"].pc = "return"
    /\ processed_files' = Added(processed_files, pr["scan"].path)
    /\ sc_i' = sc_i + 1
    /\ sc_pc' = "iter"
    /\ pr' = [pr EXCEPT !["scan"] = Idle]
    /\ UNCHANGED <<fs, created, removed, dst, queue, observing, ev_pc, listed,
                   new_files, main_pc, interrupted, copied, errors, ev_seen,
                   hvars, cvars>>

\* line 194: scan_directory has returned and Timer(3, periodic_scan).start()
\* arms the next tick; the first periodic_scan() returns to line 198
periodic_scan_rearm ==
    /\ Alive
    /\ sc_pc = "iter"
    /\ sc_i > Len(new_files)
    /\ sc_pc' = "armed"
    /\ new_files' = <<>>
    /\ sc_i' = 0
    /\ main_pc' = IF OnMainThread THEN "loop" ELSE main_pc
    /\ timers' = TimersOnReturn(timers)
    /\ scans' = scans - 1
    /\ UNCHANGED <<fs, created, removed, dst, queue, observing, ev_pc, pr,
                   listed, processed_files, interrupted, copied, errors,
                   ev_seen, scanned, fresh,
                   cvars>>

(***************************************************************************)
(* The monitor as a whole                                                  *)
(***************************************************************************)
EnvNext ==
    \/ \E p \in Paths : Create(p)
    \/ \E p \in Paths : Remove(p)
    \/ settle_delay_passes
    \/ Interrupt

MainNext ==
    \/ monitor_folder_start
    \/ monitor_folder_join

ObserverNext ==
    \/ on_created
    \/ on_created_process
    \/ copy_open("observer")
    \/ copy_write("observer")
    \/ copy_mode("observer")
    \/ on_created_return
    \/ observer_exit

ScanNext ==
    \/ scan_list
    \/ scan_sort
    \/ scan_process
    \/ copy_open("scan")
    \/ copy_write("scan")
    \/ copy_mode("scan")
    \/ scan_add
    \/ periodic_scan_rearm
    \/ timer_fire

\* the decoders have not run
NoResult == [ok |-> FALSE, exc |-> "", msg |-> ""]

CodecIdle ==
    /\ file_name = ""
    /\ gen = [grammar |-> "none"]
    /\ decoder = "none"
    /\ image_file = NoResult
    /\ name_out = ""
    /\ stack_name_out = ""

Init == MonitorInit /\ CodecIdle

Next == EnvNext \/ MainNext \/ ObserverNext \/ ScanNext

Spec == Init /\ [][Next]_vars

\* the threads are scheduled fairly, the Timer fires and time passes; the
\* rest of the environment owes nothing
FairSpec ==
    /\ Spec
    /\ WF_vars(MainNext)
    /\ WF_vars(ObserverNext)
    /\ WF_vars(ScanNext)
    /\ WF_vars(settle_delay_passes)

(***************************************************************************)
(* The codec on its own: filenames assembled from pieces, given to the     *)
(* decoders and to get_name                                                *)
(***************************************************************************)
\* canonical filenames, well-formed and not: the pieces of
\*   [<dataset>_]timelapseID-<id>_SPC-<spc>_TP-<tp>_ILL-<ill>_CAM-<cam>
\*   _CH-<ch>_PL-<pl>-outOf-<total>[_<info>].<ext>
\* with every piece varied; drop = k > 0 leaves out the k-th labelled
\* segment (1 timelapseID ... 7 PL, 8 outOf, 9 the extension)
CanonicalGens ==
    [grammar : {"canonical"},
     dataset : {"", "ds", "ds_", "a.b"},
     id : {IngestTimelapseId, "run-"},
     spc : {"0002", "12345", "2", "x2"},
     tp : {"0003"},
     ill : {"0", "00"},
     cam : {"0"},
     ch : {"01", "1"},
     pl : {"0004", "(ZS)"},
     total : {"0150"},
     info : {"", "bla", "a_b", "bla_"},
     ext : {"tif", "TIF"},
     drop : {0}]
    \cup
    [grammar : {"canonical"},
     dataset : {"", "a.b"},
     id : {IngestTimelapseId},
     spc : {"0002"},
     tp : {"0003"},
     ill : {"0"},
     cam : {"0"},
     ch : {"01"},
     pl : {"0004"},
     total : {"0150"},
     info : {""},
     ext : {"tif"},
     drop : 1..9]

RECURSIVE JoinWith(_, _)
JoinWith(segs, sep) ==
    IF Len(segs) = 0 THEN ""
    ELSE IF Len(segs) = 1 THEN segs[1]
    ELSE segs[1] \o sep \o JoinWith(Tail(segs), sep)

KeepExcept(segs, k) ==
    IF k \in 1..Len(segs)
    THEN SubSeq(segs, 1, k - 1) \o SubSeq(segs, k + 1, Len(segs))
    ELSE segs

CanonicalNameOf(g) ==
    LET segs == <<"timelapseID-" \o g.id, "SPC-" \o g.spc, "TP-" \o g.tp,
                  "ILL-" \o g.ill, "CAM-" \o g.cam, "CH-" \o g.ch,
                  "PL-" \o g.pl>>
    IN  (IF g.dataset # "" THEN g.dataset \o "_" ELSE "")
          \o JoinWith(KeepExcept(segs, g.drop), "_")
          \o (IF g.drop = 8 THEN "" ELSE "-outOf-" \o g.total)
          \o (IF g.info # "" THEN "_" \o g.info ELSE "")
          \o (IF g.drop = 9 THEN "" ELSE "." \o g.ext)

\* ingest filenames, well-formed and not: the pieces of
\*   <lead>_channel<c>_position<p>_time<t>_view<v>_z<z>.<ext><trail>
\* drop = k > 0 leaves out the k-th labelled group (6: the extension)
IngestGens ==
    [grammar : {"ingest"},
     lead : {"", "x"},
     c : {"01", "1", "123", ""},
     p : {"0002", "12345"},
     t : {"0003"},
     v : {"0", "1"},
     z : {"0004", "4", "0a"},
     ext : {"tif", "TIF", "ome_tif", "t-f", ""},
     trail : {"", ".part"},
     drop : {0}]
    \cup
    [grammar : {"ingest"},
     lead : {""},
     c : {"01"},
     p : {"0002"},
     t : {"0003"},
     v : {"0"},
     z : {"0004"},
     ext : {"tif"},
     trail : {""},
     drop : 1..6]

IngestNameOf(g) ==
    LET segs == <<"_channel" \o g.c, "_position" \o g.p, "_time" \o g.t,
                  "_view" \o g.v, "_z" \o g.z, "." \o g.ext>>
    IN  g.lead \o JoinWith(KeepExcept(segs, g.drop), "") \o g.trail

\* names that follow neither grammar, the last one from the docstring of
\* class ImageFile (line 18)
RawGens ==
    [grammar : {"raw"},
     name : {"randomfile.tif",
             "x.y.1.2.3.4.5.6.7.tif",
             "x.y.1.2.3.4.5.6.7.tif.bak",
             "SPC-0001_TP-0001_ILL-0_CAM-0_CH-01_PL-0001-outOf-0150_blaBla.tif"}]

Gens == CanonicalGens \cup IngestGens \cup RawGens

NameOf(g) ==
    CASE g.grammar = "canonical" -> CanonicalNameOf(g)
      [] g.grammar = "ingest" -> IngestNameOf(g)
      [] g.grammar = "raw" -> g.name

CodecInit ==
    /\ MonitorInit
    /\ gen \in Gens
    /\ file_name = NameOf(gen)
    /\ decoder = "none"
    /\ image_file = NoResult
    /\ name_out = ""
    /\ stack_name_out = ""

\* ImageFile(file_path) is called
decode_canonical ==
    /\ decoder = "none"
    /\ decoder' = "canonical"
    /\ image_file' = ImageFile(file_name)
    /\ UNCHANGED <<file_name, gen, name_out, mvars, new_paths,
                   stack_name_out>>

\* ImageFile.get_ImageFile_from_xOpenSPIM_filename(file_name) is called
decode_ingest ==
    /\ decoder = "none"
    /\ decoder' = "ingest"
    /\ image_file' = get_ImageFile_from_xOpenSPIM_filename(file_name)
    /\ UNCHANGED <<file_name, gen, name_out, mvars, new_paths,
                   stack_name_out>>

\* get_name() is called on the record a decoder returned
encode ==
    /\ decoder \in {"canonical", "ingest"}
    /\ image_file.ok
    /\ name_out = ""
    /\ name_out' = get_name(image_file)
    /\ UNCHANGED <<file_name, gen, decoder, image_file, mvars, new_paths,
                   stack_name_out>>

\* get_stack_name() is called on the record a decoder returned
encode_stack ==
    /\ decoder \in {"canonical", "ingest"}
    /\ image_file.ok
    /\ stack_name_out = ""
    /\ stack_name_out' = get_stack_name(image_file)
    /\ UNCHANGED <<file_name, gen, decoder, image_file, name_out, mvars,
                   new_paths>>

\* lines 158-162 of process, for the file of this name in folder_to_watch:
\* name_out is new_path, "" when the decode raised
process_new_path ==
    /\ decoder = "none"
    /\ decoder' = "process"
    /\ image_file' = get_ImageFile_from_xOpenSPIM_filename(file_name)
    /\ name_out' = new_path(PathJoin(folder_to_watch, file_name)).path
    /\ UNCHANGED <<file_name, gen, mvars, new_paths,
                   stack_name_out>>

CodecNext ==
    \/ decode_canonical
    \/ decode_ingest
    \/ encode
    \/ encode_stack
    \/ process_new_path

CodecSpec == CodecInit /\ [][CodecNext]_vars

(***************************************************************************)
(* Properties of the monitor, checked under Spec and FairSpec              *)
(***************************************************************************)
\* no call of process for p is running
NoCopyRunning(p) == \A t \in Threads : pr[t].path # p

\* the reconcile trigger has passed p to process
ScanDispatched(p) == pr["scan"].path = p \/ p \in processed_files

\* C1 (as stated): a file is copied to the destination at most once in one
\* monitor run, whatever the interleaving of on_created and scan_directory
C1_CopiedAtMostOnce ==
    \A p \in FilePaths : created[p] = 1 => copied[p] <= 1

\* C2 (as stated): every regular file present in the watched folder is
\* eventually dispatched to process by a scan, when the threads and the
\* Timer keep running and no interrupt arrives
C2_EveryFileEventuallyScanned ==
    \A p \in FilePaths :
        (fs[p] # 0) ~> (ScanDispatched(p) \/ fs[p] = 0 \/ interrupted)

\* C3: when on_created and a scan have both passed the same newly created
\* ingest-format file to process and both calls have returned, the file
\* was copied at least once if it is still there, and a destination that
\* was opened holds exactly the content of the source
C3_RacingCopiesAgree ==
    \A p \in FilePaths :
        (/\ new_paths[p].ok
         /\ created[p] = 1
         /\ p \in ev_seen
         /\ p \in processed_files
         /\ NoCopyRunning(p))
        => /\ fs[p] # 0 => copied[p] >= 1
           /\ dst[new_paths[p].path].exists =>
                  dst[new_paths[p].path].data = Content(p, 1)

\* both triggers copied the file and their writes interleaved
C3_Witness ==
    \E p \in FilePaths :
        /\ new_paths[p].ok
        /\ created[p] = 1
        /\ p \in ev_seen
        /\ p \in processed_files
        /\ NoCopyRunning(p)
        /\ copied[p] = 2
        /\ dst[new_paths[p].path].data = Content(p, 1)

\* C4: processed_files only grows: no step of the monitor takes a path out
C4_ProcessedFilesGrows == [][processed_files \subseteq processed_files']_vars

C4_Witness == processed_files = FilePaths

\* the scan loop of lines 179-182 has gone through new_files
ScanLoopDone == sc_pc = "iter" /\ sc_i > Len(new_files)

\* C5: for a file whose basename the ingest decoder rejects, process opens
\* and writes nothing, an error line names the file, no "Copied:" line
\* does, and the scan goes on: at the end of its loop every file of
\* new_files was passed to process, and those still present were copied
C5_BadNameSkipped ==
    /\ \A p \in FilePaths : ~new_paths[p].ok =>
          /\ copied[p] = 0
          /\ \A t \in Threads : pr[t].path = p =>
                /\ pr[t].pc \in {"sleep", "return"}
                /\ pr[t].pc = "return" => p \in errors
                /\ pr[t].ver = 0
          /\ (p \in ev_seen \/ p \in processed_files) => p \in errors
    /\ ScanLoopDone =>
          \A i \in 1..Len(new_files) :
              LET q == new_files[i]
              IN  /\ q \in processed_files
                  /\ (new_paths[q].ok /\ created[q] = 1 /\ fs[q] # 0) =>
                         copied[q] >= 1

\* a scan met the bad name first and then copied the good file; on_created
\* handled both as well
C5_Witness ==
    /\ ScanLoopDone
    /\ Len(new_files) = 2
    /\ ~new_paths[new_files[1]].ok
    /\ new_paths[new_files[2]].ok
    /\ copied[new_files[2]] >= 1
    /\ ev_seen = FilePaths
    /\ new_files[1] \in errors

\* C6 (as stated): no failure of a single file stops the monitor: unless
\* interrupted, the scan is never ended by an exception and the main thread
\* never dies
C6_NoFileFailureHaltsMonitor ==
    ~interrupted => sc_pc # "dead" /\ main_pc # "crashed"

\* the monitor has come to rest
MonitorStopped ==
    /\ main_pc \in {"returned", "crashed"}
    /\ ev_pc = "stopped"
    /\ sc_pc \in {"off", "dead"}

\* C7 (as stated): after an interrupt the event trigger dispatches nothing
\* more, no scan is started or re-armed, and the monitor terminates
C7_InterruptStopsMonitor == interrupted ~> []MonitorStopped

\* the scan thread is inside a call of process
ScanInProcess == pr["scan"].pc # "idle"

\* C12: in one scan, new_files holds the listed files that were not in
\* processed_files, ordered by modification time as read at the sort, oldest
\* first; the loop passes them to process in that order; a path is added to
\* processed_files only when the call of process for it has returned, and
\* before the next file is passed on
C12_ScanOrder ==
    [][/\ (sc_pc \in {"list", "armed"} /\ sc_pc' = "sort") =>
              listed' = {p \in FilePaths : fs[p] # 0 /\ p \notin processed_files}
       /\ (sc_pc = "sort" /\ sc_pc' = "iter") =>
              /\ {new_files'[i] : i \in 1..Len(new_files')} = listed
              /\ Len(new_files') = Cardinality(listed)
              /\ \A i, j \in 1..Len(new_files') :
                     i < j => fs[new_files'[i]] <= fs[new_files'[j]]
       /\ (~ScanInProcess /\ ScanInProcess') =>
              /\ pr'["scan"].path = new_files[sc_i]
              /\ \A i \in 1..(sc_i - 1) : new_files[i] \in processed_files
              /\ new_files' = new_files /\ sc_i' = sc_i
       /\ (processed_files' # processed_files) =>
              /\ pr["scan"].pc = "return"
              /\ pr["scan"].path = new_files[sc_i]
              /\ processed_files' = processed_files \cup {new_files[sc_i]}
              /\ ~ScanInProcess'
              /\ sc_i' = sc_i + 1
      ]_vars

\* the second, younger file of a scan is in process, the first is recorded
C12_Witness ==
    /\ sc_pc = "process"
    /\ Len(new_files) = 2
    /\ sc_i = 2
    /\ ScanInProcess
    /\ fs[new_files[1]] # 0
    /\ fs[new_files[1]] < fs[new_files[2]]
    /\ new_files[1] \in processed_files

\* C13: a scan never passes to process a path that is in processed_files,
\* and over all the scans of a run it passes each path at most once
C13_ScannedAtMostOnce ==
    /\ ScanInProcess => pr["scan"].path \notin processed_files
    /\ \A p \in FilePaths : scanned[p] <= 1

\* a later scan found the file, still there, already recorded
C13_Witness ==
    /\ main_pc = "loop"
    /\ ScanLoopDone
    /\ new_files = <<>>
    /\ \E p \in FilePaths :
          p \in processed_files /\ fs[p] # 0 /\ scanned[p] = 1

\* the steps on_created may take from one of its positions to the next
HandlerSteps ==
    {<<"idle", "settle">>, <<"settle", "wake">>, <<"wake", "process">>,
     <<"process", "idle">>}

\* C14: on_created goes from waiting for an event to its sleep, from the
\* sleep to the call of process, and back. It starts the sleep only on taking
\* the created event of a file from the observer, for the path of that
\* event; it leaves the sleep only when the delay has passed; it calls
\* process only out of a finished sleep and for the path it slept on; the
\* event of a directory is taken without a sleep or a call, and no thread
\* ever holds the path of a directory. The sequence ends only where the
\* observer thread or the whole process ends
C14_EventTriggerSequence ==
    [][/\ (ev_pc' # ev_pc /\ ev_pc' # "stopped") =>
              <<ev_pc, ev_pc'>> \in HandlerSteps
       /\ ev_pc' = "settle" /\ ev_pc # "settle" =>
              /\ queue # <<>>
              /\ queue' = Tail(queue)
              /\ ~Head(queue).is_directory
              /\ pr'["observer"].path = Head(queue).src_path
              /\ pr'["observer"].pc = "sleep"
       /\ ev_pc = "settle" /\ ev_pc' = "wake" =>
              /\ fresh' = {}
              /\ pr' = pr
       /\ ev_pc' = "process" /\ ev_pc # "process" =>
              /\ ev_pc = "wake"
              /\ pr["observer"].pc = "sleep"
              /\ pr'["observer"].path = pr["observer"].path
              /\ pr'["observer"].path \in FilePaths
       /\ (/\ observing'
           /\ queue # <<>>
           /\ queue' = Tail(queue)
           /\ Head(queue).is_directory) =>
              UNCHANGED <<ev_pc, pr, ev_seen, copied, errors, dst>>
       /\ \A t \in Threads : pr'[t].path \notin DirPaths
       /\ ev_seen' \cap DirPaths = {}
      ]_vars

\* on_created has copied a file after its sleep, and has then taken the
\* event of a directory created later, which left it waiting
C14_Witness ==
    /\ observing
    /\ ev_pc = "idle"
    /\ queue = <<>>
    /\ \E p \in FilePaths :
          /\ p \in ev_seen
          /\ copied[p] = 1
          /\ fs[p] # 0
          /\ \E d \in DirPaths : fs[d] > fs[p]

\* thread t calls process in this step
Dispatches(t) ==
    /\ pr[t].pc \in {"idle", "sleep"}
    /\ pr'[t].pc \in {"open", "return"}

\* C20: whenever on_created or scan_directory calls process for a file, the
\* settle delay has passed since the file appeared in the watched folder
C20_DispatchAfterSettleDelay ==
    [][\A t \in Threads : Dispatches(t) => pr'[t].path \notin fresh]_vars

\* the observer thread takes the step
ObserverStep == pr'["observer"] # pr["observer"] \/ ev_pc' # ev_pc

\* C15: no step of the event trigger changes processed_files; a path is
\* added to it only by the scan, at line 182
C15_EventLeavesProcessedFiles ==
    [][/\ (ObserverNext \/ ObserverStep) => processed_files' = processed_files
       /\ processed_files' # processed_files =>
              /\ sc_pc = "process" /\ sc_pc' = "iter"
              /\ processed_files' = processed_files \cup {pr["scan"].path}
      ]_vars

\* on_created has copied a file and reported a failure for another, and the
\* scan has recorded nothing
C15_Witness ==
    /\ ev_pc = "idle"
    /\ ev_seen = FilePaths
    /\ \E p \in FilePaths : copied[p] >= 1
    /\ errors # {}
    /\ processed_files = {}

\* a step in which processed_files is read (the listing of lines 171-174,
\* at the entry of a scan) or written (line 182)
AccessStep ==
    \/ scans' > scans
    \/ sc_pc \in {"list", "armed"} /\ sc_pc' = "sort"
    \/ processed_files' # processed_files

\* C16: processed_files is read and written by one activity at a time:
\* every step that reads or writes it belongs to the only call of
\* periodic_scan in progress, and is not a step of the observer thread
C16_ProcessedFilesAccess ==
    [][AccessStep => scans' = 1 /\ ~ObserverStep /\ ~ObserverNext]_vars

\* a Timer-thread scan records a path while on_created is copying
C16_Witness ==
    /\ main_pc = "loop"
    /\ scans = 1
    /\ sc_pc = "iter"
    /\ sc_i = 2
    /\ processed_files # {}
    /\ pr["observer"].pc = "write"

\* C17: once a scan has passed a path to process and the call has returned,
\* the path is in processed_files, whether it was copied or not, and no scan
\* lists it again; only on_created can pass it to process once more
C17_NoRetryByScan ==
    \A p \in FilePaths :
        /\ (scanned[p] >= 1 /\ pr["scan"].path # p) =>
               /\ p \in processed_files
               /\ p \notin Listing
               /\ p \notin listed
               /\ \A i \in 1..Len(new_files) : i >= sc_i => new_files[i] # p
        /\ \A t \in Threads :
               (p \in processed_files /\ pr[t].path = p) => t = "observer"

\* the copy of the scan failed, the file is back, a later scan left it out
C17_Witness ==
    /\ main_pc = "loop"
    /\ ScanLoopDone
    /\ new_files = <<>>
    /\ \E p \in FilePaths :
          /\ new_paths[p].ok
          /\ p \in errors
          /\ copied[p] = 0
          /\ scanned[p] = 1
          /\ created[p] = 2
          /\ fs[p] # 0
          /\ p \in processed_files

\* C18: at most one call of periodic_scan is in progress, and none while a
\* Timer is armed: the Timer is started only when the loop of scan_directory
\* has passed on and recorded all of new_files
C18_ScansNeverOverlap ==
    [][/\ scans' <= 1
       /\ timers' > 0 => scans' = 0 /\ timers' = 1
       /\ timers' > timers =>
              /\ ScanLoopDone
              /\ \A i \in 1..Len(new_files) : new_files[i] \in processed_files
      ]_vars

\* a scan on a Timer thread is in progress, no Timer is armed
C18_Witness ==
    /\ main_pc = "loop"
    /\ scans = 1
    /\ timers = 0
    /\ sc_pc = "process"
    /\ processed_files # {}

(***************************************************************************)
(* Properties of the codec, checked under CodecSpec                        *)
(***************************************************************************)
IsDigitStr(s) == Len(s) > 0 /\ \A i \in 1..Len(s) : CharAt(s, i) \in Digits

IsWordStr(s) == Len(s) > 0 /\ \A i \in 1..Len(s) : CharAt(s, i) \in WordChars

\* the number a digit string denotes, from its last digit
RECURSIVE Denotes(_)
Denotes(s) ==
    IF Len(s) = 0 THEN 0
    ELSE 10 * Denotes(SubSeq(s, 1, Len(s) - 1)) + DigitVal(CharAt(s, Len(s)))

\* a digit string rewritten at width w: leading zeros dropped down to w digits
RECURSIVE AtWidth(_, _)
AtWidth(s, w) ==
    IF Len(s) > w /\ Head(s) = "0" THEN AtWidth(Tail(s), w)
    ELSE IF Len(s) < w THEN AtWidth("0" \o s, w)
    ELSE s

\* the decoder raised NotImagePlaneFile and returned no record
Rejected ==
    /\ ~image_file.ok
    /\ image_file.exc = "NotImagePlaneFile"
    /\ DOMAIN image_file = {"ok", "exc", "msg"}

\* gen is a filename of the ingest grammar, matched as a whole
IngestConforming(g) ==
    /\ g.grammar = "ingest"
    /\ g.drop = 0
    /\ g.lead = ""
    /\ g.trail = ""
    /\ \A d \in {g.c, g.p, g.t, g.v, g.z} : IsDigitStr(d)
    /\ IsWordStr(g.ext)

ExpectedPlaneName(g) ==
    "timelapseID-20240808-111112"
      \o "_SPC-" \o AtWidth(g.p, 4) \o "_TP-" \o AtWidth(g.t, 4)
      \o "_ILL-0_CAM-0" \o "_CH-" \o AtWidth(g.c, 2)
      \o "_PL-" \o AtWidth(g.z, 4) \o "-outOf-0001" \o "." \o g.ext

\* C8: for every basename of the ingest grammar
\* _channel<c>_position<p>_time<t>_view<v>_z<z>.<ext>, process computes the
\* destination name timelapseID-20240808-111112_SPC-<p:04>_TP-<t:04>_ILL-0
\* _CAM-0_CH-<c:02>_PL-<z:04>-outOf-0001.<ext> in the output folder, from a
\* record with camera = illumination = 0, total_num_planes = 1, empty
\* dataset_name and additional_info; v does not appear
C8_IngestDestinationName ==
    (decoder = "process" /\ IngestConforming(gen)) =>
        /\ image_file.ok
        /\ image_file.channel = Denotes(gen.c)
        /\ image_file.specimen = Denotes(gen.p)
        /\ image_file.time_point = Denotes(gen.t)
        /\ image_file.plane = Denotes(gen.z)
        /\ image_file.extension = gen.ext
        /\ image_file.camera = 0
        /\ image_file.illumination = 0
        /\ image_file.total_num_planes = 1
        /\ image_file.dataset_name = ""
        /\ image_file.additional_info = ""
        /\ image_file.timelapse_id = "20240808-111112"
        /\ name_out = "out/" \o ExpectedPlaneName(gen)

C8_Witness ==
    /\ decoder = "process"
    /\ file_name = "_channel01_position0002_time0003_view0_z0004.tif"
    /\ name_out = "out/timelapseID-20240808-111112_SPC-0002_TP-0003_ILL-0_CAM-0_CH-01_PL-0004-outOf-0001.tif"

\* a numeric field written at its canonical width: w digits, more only when
\* the number needs them
AtCanonicalWidth(s, w) ==
    /\ IsDigitStr(s)
    /\ Len(s) >= w
    /\ Len(s) > w => Head(s) # "0"

\* gen is a filename of the canonical grammar with every segment present
\* and the numeric fields at their canonical widths
CanonicalValid(g) ==
    /\ g.grammar = "canonical"
    /\ g.drop = 0
    /\ AtCanonicalWidth(g.spc, 4)
    /\ AtCanonicalWidth(g.tp, 4)
    /\ AtCanonicalWidth(g.ill, 1)
    /\ AtCanonicalWidth(g.cam, 1)
    /\ AtCanonicalWidth(g.ch, 2)
    /\ AtCanonicalWidth(g.pl, 4)
    /\ AtCanonicalWidth(g.total, 4)

ContainsDelimiter(s) ==
    \E i \in 1..Len(s) : \E k \in 1..Len(split_by) :
        StartsWithAt(s, i, split_by[k])

BeginsWithStripChar(s) == Len(s) > 0 /\ Head(s) \in StripChars

EndsWithStripChar(s) == Len(s) > 0 /\ CharAt(s, Len(s)) \in StripChars

\* the free-form fields of gen survive the split and the strip
FreeFormStable(g) ==
    /\ \A f \in {g.dataset, g.id, g.info, g.ext} : ~ContainsDelimiter(f)
    /\ \A f \in {g.dataset, g.id} : ~BeginsWithStripChar(f)
    /\ \A f \in {g.dataset, g.id, g.info} : ~EndsWithStripChar(f)

RecordOf(g) ==
    /\ image_file.ok
    /\ image_file.dataset_name = g.dataset
    /\ image_file.timelapse_id = g.id
    /\ image_file.specimen = Denotes(g.spc)
    /\ image_file.time_point = Denotes(g.tp)
    /\ image_file.illumination = Denotes(g.ill)
    /\ image_file.camera = Denotes(g.cam)
    /\ image_file.channel = Denotes(g.ch)
    /\ image_file.plane = Denotes(g.pl)
    /\ image_file.total_num_planes = Denotes(g.total)
    /\ image_file.additional_info = g.info
    /\ image_file.extension = g.ext

\* C9 (as amended): for a canonical filename with all segments present, numeric
\* fields of ASCII digits at the canonical widths, no delimiter inside a
\* free-form field, dataset_name and timelapse_id neither beginning nor
\* ending with '-' or '_' and additional_info not ending with one,
\* ImageFile.__init__ returns the record of exactly these field values and
\* get_name reproduces the filename
C9_RoundTrip ==
    (decoder = "canonical" /\ CanonicalValid(gen) /\ FreeFormStable(gen)) =>
        /\ RecordOf(gen)
        /\ name_out # "" => name_out = file_name

C9_Witness ==
    /\ decoder = "canonical"
    /\ CanonicalValid(gen)
    /\ FreeFormStable(gen)
    /\ gen.dataset = "ds"
    /\ gen.info = "a_b"
    /\ gen.ext = "TIF"
    /\ gen.spc = "12345"
    /\ name_out = file_name

\* C9 (as stated): every syntactically valid canonical filename with numeric
\* fields at the canonical widths decodes and re-encodes to itself, with the
\* same field values
C9_RoundTripAnyValidName ==
    (decoder = "canonical" /\ CanonicalValid(gen)) =>
        /\ RecordOf(gen)
        /\ name_out # "" => name_out = file_name

\* number of places in s where one of the delimiters of split_by starts
NDelimiters(s) ==
    Cardinality({i \in 1..Len(s) :
                    \E k \in 1..Len(split_by) : StartsWithAt(s, i, split_by[k])})

\* some prefix of the name of gen follows the ingest pattern
IngestPrefix(g) ==
    /\ g.grammar = "ingest"
    /\ g.drop = 0
    /\ g.lead = ""
    /\ \A d \in {g.c, g.p, g.t, g.v, g.z} : IsDigitStr(d)
    /\ Len(g.ext) > 0
    /\ Head(g.ext) \in WordChars

NoIngestPrefix ==
    IF gen.grammar = "ingest" /\ gen.drop = 0 /\ gen.lead = ""
    THEN ~IngestPrefix(gen)
    ELSE \/ ~StartsWithAt(file_name, 1, "_channel")
         \/ gen.grammar = "ingest" /\ gen.drop # 0

MissingSegment(g) ==
    \/ g.grammar = "canonical" /\ g.drop # 0
    \/ g.grammar = "raw"

OtherPlanes == {0, 4, 150, 12345}

\* name holds, after "_PL-", a run of at least four digits that denotes
\* plane and is followed by "-outOf-"; stack is name with that run replaced
\* by (ZS)
PlaneSegmentReplaced(name, plane, stack) ==
    \E k \in 1..Len(name) :
        LET e == RunEnd(name, k, Digits)
        IN  /\ k > 4
            /\ SubSeq(name, k - 4, k - 1) = "_PL-"
            /\ e - k + 1 >= 4
            /\ Denotes(SubSeq(name, k, e)) = plane
            /\ StartsWithAt(name, e + 1, "-outOf-")
            /\ stack = SubSeq(name, 1, k - 1) \o "(ZS)"
                         \o SubSeq(name, e + 1, Len(name))

\* C11: for every record a decoder returns, get_stack_name gives get_name
\* with the plane segment replaced by (ZS), and the same name whatever the
\* plane of the record
C11_StackNameCollapse ==
    (name_out # "" /\ stack_name_out # "" /\ decoder # "process") =>
        /\ PlaneSegmentReplaced(name_out, image_file.plane, stack_name_out)
        /\ \A q \in OtherPlanes :
               get_stack_name([image_file EXCEPT !.plane = q]) = stack_name_out

C11_Witness ==
    /\ decoder = "canonical"
    /\ gen.grammar = "canonical"
    /\ gen.dataset = "ds"
    /\ gen.info = "a_b"
    /\ name_out = "ds_timelapseID-20240808-111112_SPC-12345_TP-0003_ILL-0_CAM-0_CH-01_PL-0004-outOf-0150_a_b.tif"
    /\ stack_name_out = "ds_timelapseID-20240808-111112_SPC-12345_TP-0003_ILL-0_CAM-0_CH-01_PL-(ZS)-outOf-0150_a_b.tif"

\* the basenames of the other files the watched folder may hold
OtherNames == {NameOf(g) : g \in IngestGens} \ {file_name}

\* C19: two files of the watched folder with different basenames that the
\* ingest decode both accepts have different destination paths, so the copy
\* of one never overwrites the copy of the other
C19_DistinctSourcesDistinctDestinations ==
    (decoder = "process" /\ image_file.ok) =>
        \A other \in OtherNames :
            get_ImageFile_from_xOpenSPIM_filename(other).ok =>
                new_path(PathJoin(folder_to_watch, other)).path # name_out

=============================================================================
